---- MODULE Spec2Model ----
(***************************************************************************)
(* Model of the rss-sports-feed server: the ImageCache (utils/cache.ts),   *)
(* the batch refresh refreshData, the lazy initialisation and the image    *)
(* endpoints of server.ts.                                                 *)
(*                                                                         *)
(* Every action is one run-to-completion block of the Node.js event loop:  *)
(* the code between two awaits of one async function.  Time is counted in  *)
(* units of 60 000 ms, so that the configured imageTtlMs (60 000) is 1.    *)
(***************************************************************************)
EXTENDS Integers, FiniteSets, Sequences, TLC

\* ------------------------------------------------------------------ bounds
NumIds    == 2      \* game identifiers 1..NumIds
MaxVer    == 2      \* updatedAt values 1..MaxVer a provider record takes
MaxTime   == 2      \* Date.now() is kept in the window 0..MaxTime
NumProcs  == 2      \* async activations that may be in flight together
MaxFaults == 1      \* I/O and render failures injected in a bounded run
MaxActs   == 3      \* activations started in a bounded run
MaxLogoCalls == 3   \* getLogo calls made in a run
MaxHops   == 2      \* redirects followed by one download are counted up to this

\* --------------------------------------------------------------- constants
ttlMs == 1          \* config.cache.imageTtlMs, in units of 60 000 ms
nameLen == 120      \* urlToFilename keeps the last 120 characters

Ids   == 1..NumIds
Vers  == 1..MaxVer
Procs == 1..NumProcs

NoEntry == [none |-> TRUE]          \* Map.get(id) === undefined
NoFile  == [nofile |-> TRUE]        \* readFile rejects with ENOENT
Torn    == [torn |-> TRUE]          \* file left by overlapping or failed writes
NoBuf   == [nobuf |-> TRUE]         \* null
NoSet   == [noset |-> TRUE]

VARIABLES
  now,           \* Date.now()
  prov,          \* the provider's game list at the last fetch: id -> updatedAt, 0 = not listed
  cache,         \* ImageCache.cache : id -> NoEntry or CacheEntry
  disk,          \* files <dir>/<id>.png : id -> NoFile, Torn or bytes
  currentGames,  \* server.ts currentGames: id -> updatedAt, 0 = not listed
  initialized,   \* server.ts initialized
  phase,         \* "vercel" | "boot" | "starting" | "listening" | "exited"
  rotationIndex, \* server.ts rotationIndex
  procs,         \* the async activations in flight
  bounded,       \* the run counts its activations and failures against the bounds
  faults,        \* failures injected so far in a bounded run
  acts,          \* activations started so far in a bounded run
  lastSet,       \* history: per id the arguments and time of the last set call
  ev,            \* history: what the last step did
  memCache,      \* LogoCache.memCache : url -> NoBuf or bytes
  logoDisk,      \* files <logo dir>/<name> : file name -> NoFile, Torn or bytes
  calls,         \* the getLogo activations in flight
  lacts,         \* getLogo calls started so far
  lfirst,        \* history: the first getLogo call since the process started
  lev,           \* history: what the last step of the logo cache did
  rgame,         \* the Game handed to renderTickerImage
  canvas,        \* the drawing operations renderTickerImage has issued
  fcache,        \* FeedAggregator.cache : NoCache or [items, updatedAt]
  fnow,          \* Date.now() as the feed aggregator reads it
  fcalls,        \* the getItems activations in flight
  facts,         \* getItems calls started so far
  fev            \* history: what the last step of the feed aggregator did

serverVars == <<now, prov, cache, disk, currentGames, initialized, phase,
                rotationIndex, procs, bounded, faults, acts, lastSet, ev>>
logoVars   == <<memCache, logoDisk, calls, lacts, lfirst, lev>>
renderVars == <<rgame, canvas>>
feedVars   == <<fcache, fnow, fcalls, facts, fev>>

vars == <<serverVars, logoVars, renderVars, feedVars>>

\* what a step of one component leaves alone
notServerVars == <<logoVars, renderVars, feedVars>>
notLogoVars   == <<serverVars, renderVars, feedVars>>
notRenderVars == <<serverVars, logoVars, feedVars>>
notFeedVars   == <<serverVars, logoVars, renderVars>>

\* ------------------------------------------------------------ pure helpers
Min(S) == CHOOSE x \in S : \A y \in S : x <= y
Max(S) == CHOOSE x \in S : \A y \in S : x >= y

\* A Game of a list: only the fields the cache and the endpoints read.
Game(list, i) == [id |-> i, updatedAt |-> list[i]]

Listed(list) == {i \in Ids : list[i] # 0}

\* renderTickerImage: the bytes are a function of the game record.
renderTickerImage(game) == [img |-> game.id, of |-> game.updatedAt]

\* get that falls back to the file of id when the map has no entry
get_DiskFallback(c, id) ==
  IF c[id] # NoEntry THEN c[id].buffer
  ELSE IF disk[id] = NoFile THEN NoBuf ELSE disk[id]

\* ImageCache.get
get(c, id) == IF c[id] = NoEntry THEN NoBuf ELSE c[id].buffer

\* isStale with the boundary moved: an entry whose age equals the TTL is stale
isStaleIn_AtTtl(c, t, id, dataHash) ==
  IF c[id] = NoEntry THEN TRUE
  ELSE IF c[id].dataHash # dataHash THEN TRUE
  ELSE IF t - c[id].generatedAt >= ttlMs THEN TRUE
  ELSE FALSE

\* ImageCache.isStale, on an explicit map and clock
isStaleIn(c, t, id, dataHash) ==
  IF c[id] = NoEntry THEN TRUE
  ELSE IF c[id].dataHash # dataHash THEN TRUE
  ELSE IF t - c[id].generatedAt > ttlMs THEN TRUE
  ELSE FALSE

isStale(id, dataHash) == isStaleIn(cache, now, id, dataHash)

\* set that keeps the generation time of the entry it replaces
setEntry_KeepsTime(c, t, id, buffer, dataHash) ==
  [c EXCEPT ![id] = [buffer |-> buffer,
                     generatedAt |-> IF c[id] = NoEntry THEN t ELSE c[id].generatedAt,
                     dataHash |-> dataHash]]

\* set that builds a new map holding only the entry it sets
setEntry_NewMap(c, t, id, buffer, dataHash) ==
  [i \in Ids |-> IF i = id
     THEN [buffer |-> buffer, generatedAt |-> t, dataHash |-> dataHash]
     ELSE NoEntry]

\* ImageCache.set, the synchronous part: the Map.set before the await
setEntry(c, t, id, buffer, dataHash) ==
  [c EXCEPT ![id] = [buffer |-> buffer, generatedAt |-> t, dataHash |-> dataHash]]

\* ImageCache.clear / a new Map
clear == [i \in Ids |-> NoEntry]

\* loadFromDisk whose path does not depend on id: it reads the first file
loadFromDisk_OnePath(d, id, readFails) ==
  IF readFails \/ d[1] = NoFile THEN NoBuf ELSE d[1]

\* ImageCache.loadFromDisk: readFile, null on any failure
loadFromDisk(d, id, readFails) ==
  IF readFails \/ d[id] = NoFile THEN NoBuf ELSE d[id]

\* ------------------------------------------------------- async activations
EmptyList == [i \in Ids |-> 0]

\* An activation slot: op is the entry point that started it, pc the await
\* it is suspended at, the rest are the locals of the running functions.
Idle == [op |-> "idle", pc |-> "idle", reqId |-> 0, games |-> EmptyList,
         gid |-> 0, hash |-> 0, buf |-> NoBuf, raced |-> FALSE,
         regenerated |-> 0, rendered |-> {}]

RequestOps == {"apiImage", "imagesPng", "tickerPng"}

\* a loop that renders every game of the list, stale or not
NextStale_Always(c, t, games, from) ==
  LET S == {i \in Ids : i >= from /\ games[i] # 0}
  IN IF S = {} THEN 0 ELSE Min(S)

\* first game at or after position `from` that isStale reports stale, 0 if none
NextStale(c, t, games, from) ==
  LET S == {i \in Ids : i >= from /\ games[i] # 0 /\ isStaleIn(c, t, i, games[i])}
  IN IF S = {} THEN 0 ELSE Min(S)

\* the games at or after `from` that the loop passes over before `nxt`
Skipped(games, from, nxt) ==
  {i \in Ids : i >= from /\ games[i] # 0 /\ (nxt = 0 \/ i < nxt)}

\* activation q has a writeFile of other bytes to <id>.png in flight
WritesOther(q, id, buffer) ==
  /\ procs[q].pc \in {"write", "hwrite"}
  /\ procs[q].gid = id
  /\ procs[q].buf # buffer

\* the number of listed games and the k-th (0-based) of them
NthListed(list, k) ==
  CHOOSE i \in Listed(list) : Cardinality({j \in Listed(list) : j < i}) = k

\* rotationIndex is only read modulo the length of the list, which is at most
\* NumIds: it is kept modulo a common multiple of all the lengths
RECURSIVE Factorial(_)
Factorial(n) == IF n <= 1 THEN 1 ELSE n * Factorial(n - 1)
RotPeriod == Factorial(NumIds)

\* a new activation takes the first free slot (the slots are interchangeable)
Free(p) == /\ procs[p] = Idle
           /\ \A q \in Procs : q < p => procs[q] # Idle
           /\ bounded => acts < MaxActs

Started == acts' = IF bounded THEN acts + 1 ELSE acts

\* f is whether this I/O or render fails.  A bounded run injects at most
\* MaxFaults failures of any kind; an unbounded run has a directory whose
\* writes may fail any number of times, and no other failure.
Fault(f, kind) ==
  /\ f => IF bounded THEN faults < MaxFaults ELSE kind = "write"
  /\ faults' = IF f /\ bounded THEN faults + 1 ELSE faults

\* ------------------------------------------------------ refreshData pieces
\* refreshData has returned in activation p (normally, or through its catch
\* at server.ts:58): the caller's continuation runs.  newGames is the value
\* of currentGames after it.
Return(p, newGames) ==
  LET pr == procs[p] IN
  /\ currentGames' = newGames
  /\ IF pr.op = "timer"
       THEN /\ procs' = [procs EXCEPT ![p] = Idle]
            /\ UNCHANGED <<initialized, phase>>
     ELSE IF pr.op = "startup"
       THEN /\ procs' = [procs EXCEPT ![p] = Idle]
            /\ initialized' = TRUE
            /\ phase' = "listening"
     ELSE /\ procs' = [procs EXCEPT ![p] =
                         [Idle EXCEPT !.op = pr.op, !.pc = "handler", !.reqId = pr.reqId]]
          /\ initialized' = TRUE
          /\ UNCHANGED phase

\* the for loop of refreshData from position `from` on, up to the next await
\* (a stale game, whose render is awaited) or to the end of the function.
\* regen and done are the loop's count and the games it has set so far.
Loop(p, from, regen, done, evs) ==
  LET pr  == procs[p]
      nxt == NextStale(cache, now, pr.games, from)
      sk  == Skipped(pr.games, from, nxt)
      scan == [type |-> "scan", p |-> p, games |-> pr.games, skipped |-> sk, picked |-> nxt]
  IN IF nxt # 0
       THEN /\ procs' = [procs EXCEPT ![p] =
                 [pr EXCEPT !.pc = "render", !.gid = nxt, !.hash = pr.games[nxt],
                            !.buf = NoBuf, !.raced = FALSE, !.regenerated = regen,
                            !.rendered = done]]
            /\ ev' = evs \cup {scan}
            /\ UNCHANGED <<currentGames, initialized, phase>>
       ELSE /\ Return(p, pr.games)
            /\ ev' = evs \cup {scan,
                  [type |-> "refreshed", p |-> p, games |-> pr.games,
                   regenerated |-> regen, rendered |-> done]}

\* The provider's list is only read by fetchGames.  Between two fetches each
\* record may have changed (a new updatedAt) or left the list; prov is the
\* list as of the last fetch and Evolve(prov) are the lists the next can see.
Evolve(list) ==
  {l \in [Ids -> 0..MaxVer] :
     \A i \in Ids : \/ l[i] = list[i]
                    \/ list[i] # 0 /\ l[i] = 0
                    \/ list[i] # 0 /\ l[i] = list[i] + 1}

\* refreshData is called in activation p: provider.fetchGames()
CallRefresh(p, op, reqId, fetchFails) ==
  IF fetchFails
    THEN /\ procs' = [procs EXCEPT ![p] =
               IF op \in RequestOps
                 THEN [Idle EXCEPT !.op = op, !.pc = "handler", !.reqId = reqId]
                 ELSE Idle]
         /\ initialized' = IF op = "timer" THEN initialized ELSE TRUE
         /\ phase' = IF op = "startup" THEN "listening" ELSE phase
         /\ ev' = {[type |-> "aborted", p |-> p, at |-> "fetch"]}
         /\ UNCHANGED prov
    ELSE /\ prov' \in Evolve(prov)
         /\ procs' = [procs EXCEPT ![p] =
               [Idle EXCEPT !.op = op, !.pc = "fetched", !.reqId = reqId, !.games = prov']]
         /\ UNCHANGED <<initialized, phase>>
         /\ ev' = {}


\* --------------------------------------- the other components, at rest
\* a URL is the sequence of its characters
U1 == <<"a", "/", "b">>
U2 == <<"a", "_", "b">>
LogoUrls == {U1, U2}

\* a string of white space only, and the keys the Map can be asked for
Blank == <<" ">>
LogoKeys == LogoUrls \cup {Blank}

\* the characters the regular expression /[^a-zA-Z0-9._-]/ lets through
SafeChars == {"a", "b", "c", "g", "j", "n", "p", "s", "v", ".", "_", "-"}

Png == <<".", "p", "n", "g">>
Svg == <<".", "s", "v", "g">>
Jpg == <<".", "j", "p", "g">>

\* String.prototype.slice(-n) and endsWith
SliceLast(str, n) ==
  IF Len(str) <= n THEN str ELSE SubSeq(str, Len(str) - n + 1, Len(str))

EndsWith(str, suffix) ==
  /\ Len(str) >= Len(suffix)
  /\ SubSeq(str, Len(str) - Len(suffix) + 1, Len(str)) = suffix

\* LogoCache.urlToFilename
urlToFilename(url) ==
  LET safe    == [i \in 1..Len(url) |-> IF url[i] \in SafeChars THEN url[i] ELSE "_"]
      trimmed == SliceLast(safe, nameLen)
  IN IF EndsWith(trimmed, Png) \/ EndsWith(trimmed, Svg) \/ EndsWith(trimmed, Jpg)
       THEN trimmed
       ELSE trimmed \o Png

FileNames == {urlToFilename(u) : u \in LogoKeys}

NoLogoFiles == [f \in FileNames |-> NoFile]

LIdle == [pc |-> "idle", url |-> <<>>, seq |-> 0, cur |-> <<>>, hops |-> 0,
          buf |-> NoBuf, raced |-> FALSE, reads |-> 0, fetches |-> 0,
          readErr |-> FALSE, conc |-> FALSE]

\* no getLogo call yet
NoCall == [n |-> 0, arg |-> <<>>, cold |-> FALSE, result |-> "none", fetches |-> 0]

\* new LogoCache(dir): an empty Map, nothing in flight
LogoFresh ==
  /\ memCache = [u \in LogoKeys |-> NoBuf]
  /\ calls = [p \in Procs |-> LIdle]
  /\ lfirst = NoCall

LogoIdle ==
  /\ LogoFresh
  /\ lacts = 0
  /\ lev = {}

NoGame == [nogame |-> TRUE]

RenderIdle ==
  /\ rgame = NoGame
  /\ canvas = <<>>

\* private cache: FeedCache | null = null
NoCache == [nocache |-> TRUE]

\* new FeedAggregator(): no cache, no getItems in flight
FeedIdle ==
  /\ fcache = NoCache
  /\ fnow = 0
  /\ fcalls = [p \in Procs |-> "idle"]
  /\ facts = 0
  /\ fev = {}

\* ------------------------------------------------------------------- Init
Fresh ==
  /\ cache = clear
  /\ currentGames = EmptyList
  /\ initialized = FALSE
  /\ rotationIndex = 0
  /\ procs = [p \in Procs |-> Idle]
  /\ lastSet = [i \in Ids |-> NoSet]

\* the process has just been started in local mode (config.isVercel false)
Init ==
  /\ Fresh
  /\ now = 0
  /\ prov = [i \in Ids |-> 1]
  /\ disk = [i \in Ids |-> NoFile]
  /\ phase = "boot"
  /\ bounded = TRUE
  /\ faults = 0
  /\ acts = 0
  /\ ev = {}
  /\ LogoIdle
  /\ logoDisk = NoLogoFiles
  /\ RenderIdle
  /\ FeedIdle

\* ------------------------------------------------------------ environment
\* Only differences Date.now() - generatedAt are ever read, so the clock is
\* kept in the window 0..MaxTime: at MaxTime a tick moves every stored
\* timestamp one unit back instead, down to an age of ttlMs + 1.
Back(t) == Max({t - 1, MaxTime - ttlMs - 1})

Tick ==
  /\ IF now < MaxTime
       THEN /\ now' = now + 1
            /\ UNCHANGED <<cache, lastSet>>
       ELSE /\ now' = now
            /\ cache' = [i \in Ids |->
                 IF cache[i] = NoEntry THEN NoEntry
                 ELSE [cache[i] EXCEPT !.generatedAt = Back(@)]]
            /\ lastSet' = [i \in Ids |->
                 IF lastSet[i] = NoSet THEN NoSet
                 ELSE [lastSet[i] EXCEPT !.at = Back(@)]]
  /\ ev' = {}
  /\ UNCHANGED <<prov, disk, currentGames, initialized, phase,
                 rotationIndex, procs, bounded, faults, acts>>
  /\ UNCHANGED notServerVars

\* the process is stopped and started again: memory is new, files remain
Restart ==
  /\ cache # clear \/ initialized \/ \E p \in Procs : procs[p] # Idle
  /\ phase' = IF phase = "vercel" THEN "vercel" ELSE "boot"
  /\ cache' = clear
  /\ currentGames' = EmptyList
  /\ initialized' = FALSE
  /\ rotationIndex' = 0
  /\ procs' = [p \in Procs |-> Idle]
  /\ lastSet' = [i \in Ids |-> NoSet]
  /\ ev' = {[type |-> "restart"]}
  /\ UNCHANGED <<now, prov, disk, bounded, faults, acts>>
  /\ UNCHANGED notServerVars

\* --------------------------------------------------- entry points (server)
\* local mode: the startup function calls ensureInitialized (server.ts:968)
Startup(p) ==
  /\ phase = "boot"
  /\ Free(p)
  /\ Started
  /\ phase' = "starting"
  /\ procs' = [procs EXCEPT ![p] = [Idle EXCEPT !.op = "startup", !.pc = "mkdir"]]
  /\ ev' = {}
  /\ UNCHANGED <<now, prov, cache, disk, currentGames, initialized,
                 rotationIndex, bounded, faults, lastSet>>
  /\ UNCHANGED notServerVars

\* the interval timer calls refreshData (server.ts:971)
TimerFires(p) ==
  /\ phase = "listening"
  /\ Free(p)
  /\ Started
  /\ \E f \in BOOLEAN : Fault(f, "fetch") /\ CallRefresh(p, "timer", 0, f)
  /\ UNCHANGED <<now, cache, disk, currentGames, rotationIndex, bounded, lastSet>>
  /\ UNCHANGED notServerVars

\* a request enters the init middleware (server.ts:82): ensureInitialized
\* returns at once when initialized, otherwise starts an initialisation
Request(p, op, id) ==
  /\ phase \in {"vercel", "listening"}
  /\ Free(p)
  /\ Started
  /\ procs' = [procs EXCEPT ![p] =
        [Idle EXCEPT !.op = op, !.reqId = id,
                     !.pc = IF initialized THEN "handler" ELSE "mkdir"]]
  /\ ev' = {}
  /\ UNCHANGED <<now, prov, cache, disk, currentGames, initialized, phase,
                 rotationIndex, bounded, faults, lastSet>>
  /\ UNCHANGED notServerVars

\* ensureInitialized after the two mkdir: refreshData is called; a failing
\* mkdir rejects ensureInitialized (fatal at startup, logged by the middleware)
InitDirs(p) ==
  /\ procs[p].pc = "mkdir"
  /\ \E f \in BOOLEAN :
       \/ /\ f /\ Fault(TRUE, "mkdir")
          /\ IF procs[p].op = "startup"
               THEN /\ phase' = "exited"
                    /\ procs' = [q \in Procs |-> Idle]
               ELSE /\ procs' = [procs EXCEPT ![p] = [@ EXCEPT !.pc = "handler"]]
                    /\ UNCHANGED phase
          /\ ev' = {[type |-> "aborted", p |-> p, at |-> "mkdir"]}
          /\ UNCHANGED <<initialized, prov>>
       \/ /\ ~f
          /\ \E g \in BOOLEAN :
               Fault(g, "fetch") /\ CallRefresh(p, procs[p].op, procs[p].reqId, g)
  /\ UNCHANGED <<now, cache, disk, currentGames, rotationIndex, bounded, acts, lastSet>>
  /\ UNCHANGED notServerVars

\* ----------------------------------------------------------- refreshData
\* after await provider.fetchGames(): the loop starts
RefreshLoop(p) ==
  /\ procs[p].pc = "fetched"
  /\ Loop(p, 1, 0, {}, {})
  /\ UNCHANGED <<now, prov, cache, disk, rotationIndex, bounded, faults, acts, lastSet>>
  /\ UNCHANGED notServerVars

\* imageCache.set(id, buffer, dataHash) is called in activation p, which goes
\* on at pc: the Map.set runs, the writeFile is started and awaited.  Two
\* writeFile of different bytes to one path that overlap in time race: each
\* of them is marked.
CallSet(p, pc, id, buffer, dataHash) ==
  /\ cache' = setEntry(cache, now, id, buffer, dataHash)
  /\ lastSet' = [lastSet EXCEPT ![id] =
        [buffer |-> buffer, dataHash |-> dataHash, at |-> now, by |-> p]]
  /\ procs' = [q \in Procs |->
        IF q = p
          THEN [procs[p] EXCEPT !.pc = pc, !.buf = buffer,
                  !.raced = \E r \in Procs \ {p} : WritesOther(r, id, buffer)]
        ELSE IF WritesOther(q, id, buffer)
          THEN [procs[q] EXCEPT !.raced = TRUE]
        ELSE procs[q]]
  /\ ev' = {[type |-> "set", p |-> p, id |-> id,
             dataHash |-> dataHash, buffer |-> buffer]}

\* after await renderTickerImage: imageCache.set is called;
\* a throwing render ends refreshData in its catch
RefreshRendered(p) ==
  LET pr == procs[p]
      buffer == renderTickerImage(Game(pr.games, pr.gid)) IN
  /\ pr.pc = "render"
  /\ \E f \in BOOLEAN :
       /\ Fault(f, "render")
       /\ IF f
            THEN /\ Return(p, currentGames)
                 /\ ev' = {[type |-> "aborted", p |-> p, at |-> "render"]}
                 /\ UNCHANGED <<cache, lastSet>>
            ELSE /\ CallSet(p, "write", pr.gid, buffer, pr.hash)
                 /\ UNCHANGED <<currentGames, initialized, phase>>
  /\ UNCHANGED <<now, prov, disk, rotationIndex, bounded, acts>>
  /\ UNCHANGED notServerVars

\* the bytes a writeFile leaves in the file: its buffer; a mix when it raced
\* with another; the old file or a partial one when it is rejected
Written(p, id, buffer, fails) ==
  IF fails THEN {disk[id], Torn}
  ELSE IF procs[p].raced THEN {buffer, Torn}
  ELSE {buffer}

\* the promise of imageCache.set settles in activation p
SetSettles(p, fails) ==
  [type |-> "setdone", p |-> p, id |-> procs[p].gid, dataHash |-> procs[p].hash,
   buffer |-> procs[p].buf, ok |-> ~fails]

\* after await imageCache.set: the writeFile has settled
RefreshWritten(p) ==
  LET pr == procs[p] IN
  /\ pr.pc = "write"
  /\ \E f \in BOOLEAN :
       /\ Fault(f, "write")
       /\ \E bytes \in Written(p, pr.gid, pr.buf, f) :
            disk' = [disk EXCEPT ![pr.gid] = bytes]
       /\ IF f
            THEN /\ Return(p, currentGames)
                 /\ ev' = {SetSettles(p, f), [type |-> "aborted", p |-> p, at |-> "write"]}
            ELSE Loop(p, pr.gid + 1, pr.regenerated + 1,
                      pr.rendered \cup {pr.gid}, {SetSettles(p, f)})
  /\ UNCHANGED <<now, prov, cache, rotationIndex, bounded, acts, lastSet>>
  /\ UNCHANGED notServerVars


\* ------------------------------------------------------- request handlers
\* what a response records: for the identifier answered, whether the current
\* list has a game for it and what isStale says for that game, at this moment
Response(p, ep, id, status, body, via) ==
  [type |-> "resp", p |-> p, ep |-> ep, id |-> id, status |-> status,
   body |-> body, via |-> via,
   listed |-> (id # 0 /\ currentGames[id] # 0),
   stale |-> (id # 0 /\ currentGames[id] # 0 /\ isStale(id, currentGames[id]))]

\* res.send / res.status(..).send: the activation ends with a response
Respond(p, ep, id, status, body, via, evs) ==
  /\ procs' = [procs EXCEPT ![p] = Idle]
  /\ ev' = evs \cup {Response(p, ep, id, status, body, via)}

\* imageCache.get(id) was called and returned result
Got(id, result) == [type |-> "get", id |-> id, result |-> result]

\* a handler goes on to render the game it found (renderTickerImage awaited)
StartRender(p, id, evs) ==
  /\ procs' = [procs EXCEPT ![p] =
        [@ EXCEPT !.pc = "hrender", !.gid = id, !.hash = currentGames[id]]]
  /\ ev' = evs

\* GET /api/image up to its first await (server.ts:122-148)
ApiImage(p) ==
  LET id == procs[p].reqId
      cached == get(cache, id) IN
  /\ procs[p].pc = "handler" /\ procs[p].op = "apiImage"
  /\ IF id = 0 THEN Respond(p, "apiImage", id, 400, NoBuf, "none", {})
     ELSE IF cached # NoBuf
       THEN Respond(p, "apiImage", id, 200, cached, "mem", {Got(id, cached)})
     ELSE IF currentGames[id] = 0
       THEN Respond(p, "apiImage", id, 404, NoBuf, "none", {Got(id, cached)})
     ELSE StartRender(p, id, {Got(id, cached)})
  /\ UNCHANGED <<now, prov, cache, disk, currentGames, initialized, phase,
                 rotationIndex, bounded, faults, acts, lastSet>>
  /\ UNCHANGED notServerVars

\* GET /images/:id.png up to its first await (server.ts:766-778)
ImagesPng(p) ==
  LET id == procs[p].reqId
      buffer == get(cache, id) IN
  /\ procs[p].pc = "handler" /\ procs[p].op = "imagesPng"
  /\ IF buffer # NoBuf
       THEN Respond(p, "imagesPng", id, 200, buffer, "mem", {Got(id, buffer)})
       ELSE /\ procs' = [procs EXCEPT ![p] = [@ EXCEPT !.pc = "read"]]
            /\ ev' = {Got(id, buffer)}
  /\ UNCHANGED <<now, prov, cache, disk, currentGames, initialized, phase,
                 rotationIndex, bounded, faults, acts, lastSet>>
  /\ UNCHANGED notServerVars

\* GET /images/:id.png after await loadFromDisk (server.ts:778-788)
ImagesPngRead(p) ==
  LET id == procs[p].reqId IN
  /\ procs[p].pc = "read"
  /\ \E f \in BOOLEAN :
       /\ Fault(f, "read")
       /\ LET diskBuffer == loadFromDisk(disk, id, f)
              loaded == [type |-> "load", id |-> id, result |-> diskBuffer, failed |-> f]
          IN IF diskBuffer # NoBuf
               THEN Respond(p, "imagesPng", id, 200, diskBuffer, "disk", {loaded})
               ELSE Respond(p, "imagesPng", id, 404, NoBuf, "none", {loaded})
  /\ UNCHANGED <<now, prov, cache, disk, currentGames, initialized, phase,
                 rotationIndex, bounded, acts, lastSet>>
  /\ UNCHANGED notServerVars

\* GET /ticker.png up to its first await (server.ts:793-813)
TickerPng(p) ==
  LET n  == Cardinality(Listed(currentGames))
      id == NthListed(currentGames, rotationIndex % n)
      cached == get(cache, id) IN
  /\ procs[p].pc = "handler" /\ procs[p].op = "tickerPng"
  /\ IF n = 0
       THEN /\ Respond(p, "tickerPng", 0, 503, NoBuf, "none", {})
            /\ UNCHANGED rotationIndex
       ELSE /\ rotationIndex' = (rotationIndex + 1) % RotPeriod
            /\ IF cached # NoBuf
                 THEN Respond(p, "tickerPng", id, 200, cached, "mem", {Got(id, cached)})
                 ELSE StartRender(p, id, {Got(id, cached)})
  /\ UNCHANGED <<now, prov, cache, disk, currentGames, initialized, phase,
                 bounded, faults, acts, lastSet>>
  /\ UNCHANGED notServerVars

\* /api/image and /ticker.png after await renderTickerImage: imageCache.set is
\* called (server.ts:148-149, 813-814); a throwing render is answered with 500
HandlerRendered(p) ==
  LET pr == procs[p]
      buffer == renderTickerImage([id |-> pr.gid, updatedAt |-> pr.hash]) IN
  /\ pr.pc = "hrender"
  /\ \E f \in BOOLEAN :
       /\ Fault(f, "render")
       /\ IF f
            THEN /\ Respond(p, pr.op, pr.gid, 500, NoBuf, "none", {})
                 /\ UNCHANGED <<cache, lastSet>>
            ELSE CallSet(p, "hwrite", pr.gid, buffer, pr.hash)
  /\ UNCHANGED <<now, prov, disk, currentGames, initialized, phase, rotationIndex,
                 bounded, acts>>
  /\ UNCHANGED notServerVars

\* /api/image and /ticker.png after await imageCache.set (server.ts:149-157,
\* 814-822): the bytes are sent, or 500 when the writeFile was rejected
HandlerWritten(p) ==
  LET pr == procs[p] IN
  /\ pr.pc = "hwrite"
  /\ \E f \in BOOLEAN :
       /\ Fault(f, "write")
       /\ \E bytes \in Written(p, pr.gid, pr.buf, f) :
            disk' = [disk EXCEPT ![pr.gid] = bytes]
       /\ IF f
            THEN Respond(p, pr.op, pr.gid, 500, NoBuf, "none", {SetSettles(p, f)})
            ELSE Respond(p, pr.op, pr.gid, 200, pr.buf, "render", {SetSettles(p, f)})
  /\ UNCHANGED <<now, prov, cache, currentGames, initialized, phase, rotationIndex,
                 bounded, acts, lastSet>>
  /\ UNCHANGED notServerVars

\* ------------------------------------------------------------------- Next
\* HandlerRendered and HandlerWritten are not among the steps: the server
\* never reaches them (OnDemandRenderUnreachable below).
Next ==
  \/ Tick
  \/ Restart
  \/ \E p \in Procs : Startup(p)
  \/ \E p \in Procs : TimerFires(p)
  \/ \E p \in Procs : \E id \in Ids \cup {0} : Request(p, "apiImage", id)
  \/ \E p \in Procs : \E id \in Ids : Request(p, "imagesPng", id)
  \/ \E p \in Procs : Request(p, "tickerPng", 0)
  \/ \E p \in Procs : InitDirs(p)
  \/ \E p \in Procs : RefreshLoop(p)
  \/ \E p \in Procs : RefreshRendered(p)
  \/ \E p \in Procs : RefreshWritten(p)
  \/ \E p \in Procs : ApiImage(p)
  \/ \E p \in Procs : ImagesPng(p)
  \/ \E p \in Procs : ImagesPngRead(p)
  \/ \E p \in Procs : TickerPng(p)

Spec == Init /\ [][Next]_vars

TypeOK ==
  /\ now \in 0..MaxTime
  /\ prov \in [Ids -> 0..MaxVer]
  /\ currentGames \in [Ids -> 0..MaxVer]
  /\ initialized \in BOOLEAN
  /\ phase \in {"vercel", "boot", "starting", "listening", "exited"}
  /\ rotationIndex \in 0..(RotPeriod - 1)
  /\ faults \in 0..MaxFaults
  /\ acts \in 0..MaxActs
  /\ \A i \in Ids : cache[i] = NoEntry \/ cache[i].dataHash \in Vers

\* Every game of currentGames has an entry in the image cache: the list is
\* assigned after the loop has set every stale game, and entries are never
\* removed.  So get() never misses for a game the endpoints find, and the
\* render-on-demand branch of /api/image and /ticker.png is never taken.
OnDemandRenderUnreachable ==
  /\ \A i \in Ids : currentGames[i] # 0 => cache[i] # NoEntry
  /\ \A p \in Procs : procs[p].pc \notin {"hrender", "hwrite"}


\* --------------------------------------------------------- unbounded runs
\* The server left running in local mode: the startup, then the interval
\* timer for ever.  Activations and the failures of fs.writeFile are not
\* counted.  A refresh ends within the refresh interval (both are 60 s and a
\* refresh takes a fraction of that), so the timer finds no refresh in flight.
TimerFiresIdle(p) ==
  /\ \A q \in Procs : procs[q] = Idle
  /\ TimerFires(p)

LiveInit ==
  /\ Fresh
  /\ now = 0
  /\ prov = [i \in Ids |-> 1]
  /\ disk = [i \in Ids |-> NoFile]
  /\ phase = "boot"
  /\ bounded = FALSE
  /\ faults = 0
  /\ acts = 0
  /\ ev = {}
  /\ LogoIdle
  /\ logoDisk = NoLogoFiles
  /\ RenderIdle
  /\ FeedIdle

NextLive ==
  \/ Tick
  \/ \E p \in Procs : Startup(p)
  \/ \E p \in Procs : InitDirs(p)
  \/ \E p \in Procs : TimerFiresIdle(p)
  \/ \E p \in Procs : RefreshLoop(p)
  \/ \E p \in Procs : RefreshRendered(p)
  \/ \E p \in Procs : RefreshWritten(p)

\* Every promise settles and its continuation runs; setInterval keeps
\* firing.  The clock is not constrained.
Fairness ==
  /\ \A p \in Procs : /\ WF_vars(Startup(p))
                      /\ WF_vars(InitDirs(p))
                      /\ WF_vars(RefreshLoop(p))
                      /\ WF_vars(RefreshRendered(p))
                      /\ WF_vars(RefreshWritten(p))
  /\ WF_vars(\E p \in Procs : TimerFiresIdle(p))

LiveSpec == LiveInit /\ [][NextLive]_vars /\ Fairness

\* ---------------------------------------------------------------- LogoCache
\* The argument of getLogo: string | undefined
NoUrl == [given |-> FALSE, text |-> <<>>]
Url(text) == [given |-> TRUE, text |-> text]

LogoArgs == {NoUrl, Url(<<>>), Url(Blank)} \cup {Url(u) : u \in LogoUrls}

WhiteSpace == {" "}

\* String.prototype.trim
RECURSIVE Trim(_)
Trim(str) ==
  IF str = <<>> THEN str
  ELSE IF Head(str) \in WhiteSpace THEN Trim(Tail(str))
  ELSE IF str[Len(str)] \in WhiteSpace THEN Trim(SubSeq(str, 1, Len(str) - 1))
  ELSE str

\* the guard with the trim left out
IsBlank_NoTrim(arg) == ~arg.given \/ arg.text = <<>>

\* !url || url.trim() === ''
IsBlank(arg) == ~arg.given \/ arg.text = <<>> \/ Trim(arg.text) = <<>>

\* what a server answers to one request: 200 with a body, 301/302 with a
\* Location, any other status (a 3xx without Location too), or nothing in
\* time (timeout) or a transport error
Answers ==
  {[kind |-> "ok", v |-> v] : v \in Vers}
    \cup {[kind |-> "redirect", to |-> u] : u \in LogoUrls}
    \cup {[kind |-> k] : k \in {"status", "timeout", "error"}}

\* the bytes download(url) resolves with, after any redirects, when the
\* content served is at version v
Body(url, v) == [logo |-> url, v |-> v]

\* a getLogo that does not fill the memory tier
memSet_Skip(m, url, buffer) == m

\* this.memCache.set(url, buffer)
memSet(m, url, buffer) == [m EXCEPT ![url] = buffer]

\* a new getLogo call takes the first free slot
LFree(p) == /\ calls[p] = LIdle
            /\ \A q \in Procs : q < p => calls[q] # LIdle
            /\ lacts < MaxLogoCalls

InFlight(p) == \E q \in Procs \ {p} : calls[q] # LIdle

\* activation q has a writeFile of other bytes to the file in flight
LogoWritesOther(q, file, buffer) ==
  /\ calls[q].pc = "write"
  /\ urlToFilename(calls[q].url) = file
  /\ calls[q].buf # buffer

\* what getLogo(arg) returned and what it did on the way: via is the tier
\* that answered, cause the failure that ended it, reads and fetches the
\* readFile and download(url) calls it made, hops the redirects it followed
Ret(p, arg, result, via, cause, c) ==
  [type |-> "ret", p |-> p, arg |-> arg, result |-> result, via |-> via,
   cause |-> cause, seq |-> c.seq, reads |-> c.reads, fetches |-> c.fetches,
   hops |-> c.hops, raced |-> c.raced, readErr |-> c.readErr, conc |-> c.conc]

\* the history after a return: the outcome of the first call is kept
Returned(ret) ==
  IF ret.seq = 1
    THEN [lfirst EXCEPT !.result = IF ret.result = NoBuf THEN "absent" ELSE "bytes",
                        !.fetches = ret.fetches]
    ELSE lfirst

\* getLogo returns in activation p
LReturn(p, ret) ==
  /\ calls' = [calls EXCEPT ![p] = LIdle]
  /\ lfirst' = Returned(ret)
  /\ lev' = {ret}

\* a catch that calls download again instead of returning
Caught_Retry(p, cause) ==
  /\ calls' = [calls EXCEPT ![p].pc = "download", ![p].cur = calls[p].url,
                             ![p].fetches = calls[p].fetches + 1]
  /\ lev' = {[type |-> "req", p |-> p, url |-> calls[p].url]}
  /\ UNCHANGED lfirst

\* catch (err) { console.warn(...); return null } (part_004:61-64)
Caught(p, cause) ==
  LReturn(p, Ret(p, Url(calls[p].url), NoBuf, "fail", cause, calls[p]))

\* the history when a call starts: the tiers the first call found
Called(arg) ==
  IF lfirst.n = 0
    THEN [n |-> 1, arg |-> arg.text, result |-> "none", fetches |-> 0,
          cold |-> /\ \A u \in LogoKeys : memCache[u] = NoBuf
                   /\ logoDisk = NoLogoFiles]
    ELSE [lfirst EXCEPT !.n = IF @ < 3 THEN @ + 1 ELSE @]

\* getLogo(arg) is called: up to the first await (part_004:36-48)
GetLogo(p, arg) ==
  LET c0 == [LIdle EXCEPT !.url = arg.text, !.seq = Called(arg).n, !.conc = InFlight(p)]
      others == [q \in Procs |->
                  IF calls[q] = LIdle THEN LIdle ELSE [calls[q] EXCEPT !.conc = TRUE]]
  IN
  /\ LFree(p)
  /\ lacts' = lacts + 1
  /\ IF IsBlank(arg)
       THEN LET ret == Ret(p, arg, NoBuf, "blank", "none", c0) IN
            /\ lfirst' = [Called(arg) EXCEPT !.result =
                             IF c0.seq = 1 THEN "absent" ELSE @]
            /\ lev' = {ret}
            /\ UNCHANGED calls
     ELSE IF memCache[arg.text] # NoBuf
       THEN LET ret == Ret(p, arg, memCache[arg.text], "mem", "none", c0) IN
            /\ lfirst' = [Called(arg) EXCEPT !.result =
                             IF c0.seq = 1 THEN "bytes" ELSE @]
            /\ lev' = {ret}
            /\ calls' = others
     ELSE /\ calls' = [others EXCEPT ![p] = [c0 EXCEPT !.pc = "read", !.reads = c0.reads + 1]]
          /\ lfirst' = Called(arg)
          /\ lev' = {[type |-> "read", p |-> p, url |-> arg.text]}
  /\ UNCHANGED <<memCache, logoDisk>>
  /\ UNCHANGED notLogoVars

\* what a readFile of the file can deliver: its bytes; while a writeFile to
\* it is in progress also nothing or the part written so far
ReadOf(file) ==
  {logoDisk[file]} \cup
  (IF \E q \in Procs : calls[q].pc = "write" /\ urlToFilename(calls[q].url) = file
     THEN {Torn} ELSE {})

\* after await fs.readFile (part_004:48-57): a hit fills the Map and
\* returns; any rejection is a miss and download(url) is called
LogoRead(p) ==
  LET c == calls[p]
      file == urlToFilename(c.url) IN
  /\ c.pc = "read"
  /\ \E readFails \in BOOLEAN : \E bytes \in ReadOf(file) :
       /\ readFails => bytes # NoFile
       /\ IF ~readFails /\ bytes # NoFile
            THEN /\ memCache' = memSet(memCache, c.url, bytes)
                 /\ LReturn(p, Ret(p, Url(c.url), bytes, "disk", "none", c))
            ELSE /\ calls' = [calls EXCEPT ![p] =
                       [c EXCEPT !.pc = "download", !.cur = c.url, !.fetches = c.fetches + 1,
                                 !.readErr = readFails]]
                 /\ lev' = {[type |-> "req", p |-> p, url |-> c.url]}
                 /\ UNCHANGED <<memCache, lfirst>>
  /\ UNCHANGED <<logoDisk, lacts>>
  /\ UNCHANGED notLogoVars

\* the callback or an event of client.get in download (part_004:76-102)
LogoAnswer(p, a) ==
  LET c == calls[p]
      file == urlToFilename(c.url) IN
  /\ c.pc = "download"
  /\ IF a.kind = "ok"
       THEN LET buffer == Body(c.url, a.v) IN
            /\ calls' = [q \in Procs |->
                 IF q = p
                   THEN [c EXCEPT !.pc = "write", !.buf = buffer,
                           !.raced = \E r \in Procs \ {p} : LogoWritesOther(r, file, buffer)]
                 ELSE IF LogoWritesOther(q, file, buffer)
                   THEN [calls[q] EXCEPT !.raced = TRUE]
                 ELSE calls[q]]
            /\ lev' = {[type |-> "write", p |-> p, url |-> c.url]}
            /\ UNCHANGED lfirst
     ELSE IF a.kind = "redirect"
       THEN /\ c.hops < MaxHops
            /\ calls' = [calls EXCEPT ![p] = [c EXCEPT !.cur = a.to, !.hops = c.hops + 1]]
            /\ lev' = {[type |-> "req", p |-> p, url |-> a.to]}
            /\ UNCHANGED lfirst
     ELSE Caught(p, a.kind)
  /\ UNCHANGED <<memCache, logoDisk, lacts>>
  /\ UNCHANGED notLogoVars

\* a writeFile that resolves without having written
LogoWrittenBytes_NoWrite(p, file, fails) == {logoDisk[file]}

\* the bytes a writeFile leaves in the file (as Written for the images)
LogoWrittenBytes(p, file, fails) ==
  IF fails THEN {logoDisk[file], Torn}
  ELSE IF calls[p].raced THEN {calls[p].buf, Torn}
  ELSE {calls[p].buf}

\* after await fs.writeFile (part_004:58-64)
LogoWritten(p) ==
  LET c == calls[p]
      file == urlToFilename(c.url) IN
  /\ c.pc = "write"
  /\ \E fails \in BOOLEAN :
       /\ \E bytes \in LogoWrittenBytes(p, file, fails) :
            logoDisk' = [logoDisk EXCEPT ![file] = bytes]
       /\ IF fails
            THEN /\ Caught(p, "write")
                 /\ UNCHANGED memCache
            ELSE /\ memCache' = memSet(memCache, c.url, c.buf)
                 /\ LReturn(p, Ret(p, Url(c.url), c.buf, "net", "none", c))
  /\ UNCHANGED lacts
  /\ UNCHANGED notLogoVars

\* the process is stopped and started again: the Map is new, the files remain
LogoRestart ==
  /\ ~LogoFresh
  /\ memCache' = [u \in LogoKeys |-> NoBuf]
  /\ calls' = [p \in Procs |-> LIdle]
  /\ lfirst' = NoCall
  /\ lev' = {[type |-> "restart"]}
  /\ UNCHANGED <<logoDisk, lacts>>
  /\ UNCHANGED notLogoVars

LogoInit == Init

LogoNext ==
  \/ \E p \in Procs : \E arg \in LogoArgs : GetLogo(p, arg)
  \/ \E p \in Procs : LogoRead(p)
  \/ \E p \in Procs : \E a \in Answers : LogoAnswer(p, a)
  \/ \E p \in Procs : LogoWritten(p)
  \/ LogoRestart

LogoSpec == LogoInit /\ [][LogoNext]_vars

\* ================================================================= claims
Events(type) == {e \in ev : e.type = type}

\* isStale(id, fp) is false and isStale(id, fp2) is true for every other fp2
Follows(id, fp) ==
  /\ ~isStale(id, fp)
  /\ \A fp2 \in Vers \ {fp} : isStale(id, fp2)

NeverSetIsStale ==
  \A i \in Ids : lastSet[i] = NoSet => \A fp \in Vers : isStale(i, fp)

\* C1 as stated: isStale(id, fp) is true for every fp when id has never been
\* set; immediately after set(id, bytes, fp) completes (its promise is
\* fulfilled), isStale(id, fp) is false and isStale(id, fp2) is true for
\* every fp2 different from fp.
C1_AfterSetCompletes ==
  /\ NeverSetIsStale
  /\ \A e \in Events("setdone") : e.ok => Follows(e.id, e.dataHash)

\* C1 amended: isStale(id, fp) is true for every fp when id has never been
\* set; immediately after the in-memory replacement that set(id, bytes, fp)
\* performs when it is called, isStale(id, fp) is false and isStale(id, fp2)
\* is true for every other fp2; when set completes this still holds provided
\* no other set for id was called meanwhile and no more than the TTL has
\* passed since the call.
C1_AfterSetCalled ==
  /\ NeverSetIsStale
  /\ \A e \in Events("set") : Follows(e.id, e.dataHash)
  /\ \A e \in Events("setdone") :
       (e.ok /\ lastSet[e.id] # NoSet /\ lastSet[e.id].by = e.p
             /\ now - lastSet[e.id].at <= ttlMs)
         => Follows(e.id, e.dataHash)

\* a set replaces an entry that held another fingerprint, at a time when
\* the replaced entry was older than the TTL
C1_Witness ==
  \E e \in Events("set") : e.dataHash # 1 /\ now > ttlMs

\* C2 as stated: an entry is valid for serving (isStale(id, fp) is false) if
\* and only if an entry exists for id, its fingerprint is fp and its age is
\* under the TTL; an entry whose age has reached the TTL is not valid.
C2_ValidIffUnderTtl ==
  \A i \in Ids : \A fp \in Vers :
    (~isStale(i, fp)) <=> /\ lastSet[i] # NoSet
                          /\ lastSet[i].dataHash = fp
                          /\ now - lastSet[i].at < ttlMs

\* C2 amended: an entry is valid for serving if and only if an entry exists
\* for id, its fingerprint is fp and its age does not exceed the TTL; an
\* entry whose age equals the TTL is still valid.
C2_ValidIffNotOverTtl ==
  \A i \in Ids : \A fp \in Vers :
    (~isStale(i, fp)) <=> /\ lastSet[i] # NoSet
                          /\ lastSet[i].dataHash = fp
                          /\ now - lastSet[i].at <= ttlMs

\* an entry whose age is exactly the TTL, and one that is older
C2_Witness ==
  /\ \E i \in Ids : lastSet[i] # NoSet /\ now - lastSet[i].at = ttlMs
  /\ \E i \in Ids : lastSet[i] # NoSet /\ now - lastSet[i].at > ttlMs

\* C3: whenever /api/image or /ticker.png answers from the in-memory image
\* cache for a game of the current list, isStale(game.id, game.updatedAt) is
\* false at that moment.
C3_ServedOnlyWhileValid ==
  \A e \in Events("resp") :
    (e.ep \in {"apiImage", "tickerPng"} /\ e.via = "mem" /\ e.listed) => ~e.stale

\* C4: a failed durable write inside set is absorbed by the cache: the entry
\* is replaced, and the failure does not end the batch refresh nor turn the
\* response of an endpoint into an error.
C4_WriteFailureAbsorbed ==
  \A e \in Events("setdone") :
    ~e.ok => /\ cache[e.id] # NoEntry /\ cache[e.id].buffer = e.buffer
             /\ Events("aborted") = {}
             /\ \A r \in Events("resp") : r.status = 200

\* C6: once every in-flight set call for an identifier has completed and no
\* write has failed, the file of the identifier holds exactly the bytes of
\* the in-memory entry, those of the last set.
C6_DurableCopyIsLastSet ==
  \A i \in Ids :
    (/\ lastSet[i] # NoSet
     /\ faults = 0
     /\ \A p \in Procs : ~(procs[p].pc \in {"write", "hwrite"} /\ procs[p].gid = i))
      => /\ cache[i] # NoEntry /\ cache[i].buffer = lastSet[i].buffer
         /\ disk[i] = lastSet[i].buffer

\* C7: in a batch refresh a game is rendered and its entry replaced if and
\* only if isStale(game.id, game.updatedAt) is true when the game is examined:
\* the games the loop passes over are not stale and their entries are left as
\* they are, the game it stops at is stale and is the one rendered and set;
\* the regenerated count is the number of games rendered, all of them games
\* of the list.
C7_RenderedIffStale ==
  [][/\ \A e \in ev' : e.type = "scan" =>
          LET from == IF procs[e.p].pc = "fetched" THEN 1 ELSE procs[e.p].gid + 1 IN
          /\ \A i \in Listed(e.games) :
                (i >= from /\ (e.picked = 0 \/ i < e.picked)) => i \in e.skipped
          /\ \A i \in e.skipped : /\ ~isStaleIn(cache, now, i, e.games[i])
                                  /\ cache'[i] = cache[i]
                                  /\ disk'[i] = disk[i]
          /\ e.picked # 0 =>
                /\ e.picked >= from
                /\ isStaleIn(cache, now, e.picked, e.games[e.picked])
                /\ procs'[e.p].pc = "render" /\ procs'[e.p].gid = e.picked
     /\ \A e \in ev' : (e.type = "set" /\ procs[e.p].pc = "render") =>
          /\ e.id = procs[e.p].gid
          /\ cache'[e.id] = [buffer |-> renderTickerImage(Game(procs[e.p].games, e.id)),
                             generatedAt |-> now,
                             dataHash |-> procs[e.p].games[e.id]]
     /\ \A e \in ev' : e.type = "refreshed" =>
          /\ e.regenerated = Cardinality(e.rendered)
          /\ e.rendered \subseteq Listed(e.games)
          /\ e.games = procs[e.p].games
    ]_vars

\* a refresh of a list of two games ends having rendered one and left one
C7_Witness ==
  \E e \in Events("refreshed") :
    e.regenerated = 1 /\ Cardinality(Listed(e.games)) = 2

\* the images a stored entry or file of identifier id can hold
ImagesOf(id) == {[img |-> id, of |-> v] : v \in Vers}

\* C8 as stated: a request for the image of an identifier that has no game
\* in the current list is answered "not found" and never with image bytes,
\* whatever the in-memory cache and the images directory hold.
C8_UnlistedIsNotFound ==
  \A e \in Events("resp") :
    (e.ep \in {"apiImage", "imagesPng"} /\ e.id # 0 /\ ~e.listed)
      => e.status = 404 /\ e.body = NoBuf

\* C8 amended: for an identifier with no game in the current list,
\* /api/image answers "not found" exactly when the in-memory cache has no
\* entry for it, and /images/:id.png answers "not found" only when there is
\* neither an in-memory entry nor a readable file; otherwise the stored
\* bytes are served, and they are always the bytes stored under the
\* requested identifier, never those of another.
C8_UnlistedServedOnlyOwnImage ==
  \A e \in Events("resp") :
    (e.ep \in {"apiImage", "imagesPng"} /\ e.id # 0 /\ ~e.listed) =>
      /\ e.status \in {200, 404}
      /\ e.status = 404 <=> e.body = NoBuf
      /\ e.body \in {NoBuf, Torn} \cup ImagesOf(e.id)
      /\ e.ep = "apiImage" =>
           IF cache[e.id] = NoEntry THEN e.status = 404
           ELSE e.body = cache[e.id].buffer
      /\ (e.ep = "imagesPng" /\ e.via = "mem") => e.body = cache[e.id].buffer
      /\ (e.ep = "imagesPng" /\ e.via = "disk") => e.body = disk[e.id]
      /\ (e.ep = "imagesPng" /\ e.status = 404) =>
           \E l \in Events("load") : l.id = e.id /\ (l.failed \/ disk[e.id] = NoFile)

\* /images/:id.png answers with the file of an identifier that has no game
\* in the list and no in-memory entry
C8_Witness ==
  \E e \in Events("resp") :
    e.ep = "imagesPng" /\ ~e.listed /\ e.via = "disk" /\ e.status = 200

\* C9: set(id, ...) leaves the entry of every other identifier unchanged,
\* when it is called and when its write settles, whatever other renders and
\* sets are in flight; the write touches no file but that of id.
C9_SetLeavesOtherEntries ==
  [][/\ \A e \in ev' : e.type = "set" =>
          \A j \in Ids \ {e.id} : cache'[j] = cache[j] /\ disk'[j] = disk[j]
     /\ \A e \in ev' : e.type = "setdone" =>
          /\ cache' = cache
          /\ \A j \in Ids \ {e.id} : disk'[j] = disk[j]
    ]_vars

\* set is called for one identifier while the write of a set for another
\* identifier, which has an entry, is in flight
C9_Witness ==
  \E e \in Events("set") : \E q \in Procs \ {e.p} :
    /\ procs[q].pc = "write"
    /\ procs[q].gid # e.id
    /\ cache[procs[q].gid] # NoEntry

\* C10: get(id) returns the bytes of the last set for id in this process or
\* absent, whatever the images directory holds; loadFromDisk(id) returns the
\* file of id, or absent when there is none or the read fails, leaves the
\* in-memory map as it is, and the endpoint that calls it never answers
\* with an error.
C10_TiersReadIndependently ==
  [][/\ \A e \in ev' : e.type = "get" =>
          e.result = IF lastSet[e.id] = NoSet THEN NoBuf ELSE lastSet[e.id].buffer
     /\ \A e \in ev' : e.type = "load" =>
          /\ e.result = IF e.failed \/ disk[e.id] = NoFile THEN NoBuf ELSE disk[e.id]
          /\ cache' = cache
          /\ disk' = disk
          /\ \A r \in ev' : r.type = "resp" => r.status \in {200, 404}
    ]_vars

\* get answers absent for an identifier whose file exists
C10_Witness ==
  \E e \in Events("get") : e.result = NoBuf /\ disk[e.id] # NoFile

\* C5: if the provider's record for a game stops changing and refreshes keep
\* being run, then isStale(id, current fingerprint) is false again and again
\* (it cannot stay false for ever: the TTL elapses).
C5_Converges ==
  \A i \in Ids : \A v \in Vers :
    <>[](prov[i] = v) => []<>(~isStale(i, v))

\* fs.writeFile does not fail in this step
WritesSucceed == \A e \in Events("setdone") : e.ok

\* The convergence holds in the runs in which fs.writeFile stops failing:
\* what breaks it is the rejected write that ends the batch refresh.
ConvergesWhenWritesSucceed ==
  \A i \in Ids : \A v \in Vers :
    (<>[]WritesSucceed /\ <>[](prov[i] = v)) => []<>(~isStale(i, v))

\* ------------------------------------------------------- LogoCache claims
LEvents(type) == {e \in lev : e.type = type}

\* e is the return of the second of two getLogo calls for one URL made one
\* after the other in a process that started with both tiers empty
SecondOfTwo(e) ==
  /\ e.seq = 2 /\ ~e.conc
  /\ e.via # "blank"
  /\ lfirst.arg = e.arg.text
  /\ lfirst.cold

\* C11 as stated: two sequential getLogo calls with the same URL, starting
\* with both tiers empty, perform exactly one network fetch in total and the
\* second call is answered from the memory tier.
C11_OneFetchForTwoCalls ==
  \A e \in LEvents("ret") :
    SecondOfTwo(e) => /\ lfirst.fetches + e.fetches = 1
                      /\ e.via = "mem"

\* C11 amended: when the first of the two calls returns bytes (its fetch and
\* the write of the file succeeded), the two calls perform exactly one
\* network fetch in total and the second is answered from the memory tier
\* without a disk read; when the first returns absent, the second runs the
\* chain again: it reads the disk, and fetches again unless the disk hits.
C11_OneFetchWhenFirstSucceeds ==
  \A e \in LEvents("ret") :
    SecondOfTwo(e) =>
      /\ lfirst.fetches = 1
      /\ lfirst.result = "bytes" =>
           e.via = "mem" /\ e.fetches = 0 /\ e.reads = 0 /\ e.result = memCache[e.arg.text]
      /\ lfirst.result = "absent" =>
           e.reads = 1 /\ (e.fetches = 1 \/ e.via = "disk")

\* the second of two sequential calls returns from memory
C11_Witness ==
  \E e \in LEvents("ret") :
    SecondOfTwo(e) /\ lfirst.result = "bytes" /\ e.via = "mem"

\* the tiers are consulted in the order memory, disk, network, and a hit
\* fills the memory tier
TierOrder(e) ==
  /\ e.via = "mem"  => e.reads = 0 /\ e.fetches = 0 /\ e.result # NoBuf
  /\ e.via = "disk" => /\ e.reads = 1 /\ e.fetches = 0
                        /\ e.result # NoBuf /\ memCache[e.arg.text] = e.result
  /\ e.fetches > 0  => e.reads = 1 /\ e.fetches = 1 /\ e.via \in {"net", "fail"}
  /\ e.via = "net"  => e.result # NoBuf /\ memCache[e.arg.text] = e.result

\* a call awaits its download only after its disk read, and reads the disk
\* only after the memory tier missed
InFlightOrder ==
  \A p \in Procs :
    /\ calls[p].pc \in {"download", "write"} => calls[p].reads = 1 /\ calls[p].fetches = 1
    /\ calls[p].pc = "read" => calls[p].reads = 1 /\ calls[p].fetches = 0

NetFailures == {"status", "timeout", "error"}

\* C13 as stated: on any non-2xx response, timeout, transport error or disk
\* read error getLogo returns absent.
C13_FailureIsAbsent ==
  \A e \in LEvents("ret") :
    (e.cause \in NetFailures \/ e.readErr) => e.result = NoBuf

\* C13 amended: a response that is neither 200 nor a followed redirect, a
\* timeout and a transport error make getLogo return absent, in a step that
\* changes neither tier, after exactly one download call (no retry); nothing
\* is remembered of the failure.  A disk read error is not a failure of the
\* call: it is a miss of the disk tier and the call goes on to the network.
\* The memory tier changes only when a call returns bytes from the disk or
\* the network, the files only when a fetched logo is written.
C13_NetFailureIsAbsent ==
  [][/\ \A e \in lev' : (e.type = "ret" /\ e.cause \in NetFailures) =>
          /\ e.result = NoBuf /\ e.via = "fail"
          /\ e.fetches = 1
          /\ memCache' = memCache
          /\ logoDisk' = logoDisk
     /\ \A e \in lev' : (e.type = "ret" /\ e.readErr) =>
          e.reads = 1 /\ e.fetches = 1 /\ e.via \in {"net", "fail"}
     /\ \A p \in Procs : calls'[p].fetches <= 1
     /\ memCache' # memCache =>
          \E e \in lev' : \/ e.type = "ret" /\ e.via \in {"disk", "net"}
                          \/ e.type = "restart"
     /\ logoDisk' # logoDisk =>
          \E e \in lev' : e.type = "ret" /\ (e.via = "net" \/ e.cause = "write")
    ]_vars

\* a call whose disk read failed and whose download timed out returns absent
C13_Witness ==
  \E e \in LEvents("ret") : e.cause = "timeout" /\ e.readErr /\ e.result = NoBuf

\* C14 as stated: when the download succeeded and the write of the file
\* failed, getLogo returns the fetched bytes and the memory tier holds them.
C14_WriteFailureKeepsMemory ==
  \A e \in LEvents("ret") :
    e.cause = "write" => e.result # NoBuf /\ memCache[e.arg.text] = e.result

\* C15 as stated: the download follows at most one redirect hop; a call
\* whose redirect target answered with a redirect returns absent.
C15_AtMostOneRedirectHop ==
  /\ \A p \in Procs : calls[p].hops <= 1
  /\ \A e \in LEvents("ret") : e.hops >= 2 => e.result = NoBuf

\* C16 as stated: while the process runs, bytes held by the memory tier for
\* a URL are never replaced by other bytes.
C16_RecordNeverReplaced ==
  [][\A u \in LogoUrls :
       (memCache[u] # NoBuf /\ [type |-> "restart"] \notin lev')
         => memCache'[u] = memCache[u]]_vars

\* the arguments that name no logo: undefined, '' and white space only
BlankArgs == {NoUrl, Url(<<>>), Url(Blank)}

\* C17: getLogo called with an absent, empty or whitespace-only URL returns
\* absent in the step of the call, which reads no file, writes no file,
\* sends no request, starts no activation and leaves the memory tier and the
\* files unchanged; no read, request or write is ever made for such a URL.
C17_BlankUrlDoesNothing ==
  [][/\ \A e \in lev' : (e.type = "ret" /\ e.arg \in BlankArgs) =>
          /\ e.result = NoBuf
          /\ e.reads = 0 /\ e.fetches = 0
          /\ lev' = {e}
          /\ memCache' = memCache
          /\ logoDisk' = logoDisk
          /\ calls' = calls
     /\ \A e \in lev' : e.type \in {"read", "req", "write"} =>
          Url(e.url) \notin BlankArgs
     /\ \A p \in Procs : calls'[p].pc # "idle" => Url(calls'[p].url) \notin BlankArgs
    ]_vars

\* getLogo('   ') has returned absent
C17_Witness ==
  \E e \in LEvents("ret") : e.arg = Url(Blank) /\ e.result = NoBuf /\ e.via = "blank"

\* ------------------------------------------------------- refresh, again
\* the image GET /api/image/:id serves for game i is the rendering of the
\* record with updatedAt v
Reflects(i, v) == get(cache, i) = renderTickerImage([id |-> i, updatedAt |-> v])

\* C18 as stated: once the process is initialized, whenever the provider's
\* record of a listed game has taken the updatedAt v, the image served for
\* the game eventually is the rendering of that record (or the record has
\* changed again by then).
C18_ImageFollowsRecord ==
  \A i \in Ids : \A v \in Vers :
    (initialized /\ prov[i] = v) ~> (prov[i] # v \/ Reflects(i, v))

\* The same holds in the runs in which fs.writeFile stops failing.
ImageFollowsRecordWhenWritesSucceed ==
  \A i \in Ids : \A v \in Vers :
    <>[]WritesSucceed =>
      ((initialized /\ prov[i] = v) ~> (prov[i] # v \/ Reflects(i, v)))

\* ================================================================ renderer
\* renderTickerImage as the list of drawing calls it makes on its canvas.
\* Lengths are in half pixels, so that h / 2 and the 0.5 of the border are
\* whole numbers.
MaxScore == 2       \* scores 0..MaxScore

\* an optional string: undefined, or a string (a sequence of characters)
NoStr == [given |-> FALSE, text |-> <<>>]
Str(text) == [given |-> TRUE, text |-> text]

\* JavaScript truthiness of an optional string
Truthy(s) == s.given /\ Len(s.text) > 0

\* an optional number: undefined, or a number
NoNum == [given |-> FALSE, n |-> 0]
Num(n) == [given |-> TRUE, n |-> n]

\* JavaScript truthiness of an optional number
TruthyNum(v) == v.given /\ v.n # 0

\* config.display and config.ticker
display == [width |-> 384, height |-> 192, scaleFactor |-> 2]
ticker == [teamRowHeight |-> 80, scorePanelWidth |-> 114, logoSize |-> 70,
           logoPadding |-> 6]
colors == [background |-> "#000000", scorePanelBg |-> "#141414",
           statusBarBg |-> "#0c0c0c", divider |-> "#333333", dimText |-> "#888888",
           live |-> "#ff3333", final |-> "#999999", pre |-> "#4499ff"]

HalfPx(n) == 2 * n

W == HalfPx(display.width)
H == HalfPx(display.height)
rowH == HalfPx(ticker.teamRowHeight)
scorePanW == HalfPx(ticker.scorePanelWidth)
scorePanX == W - scorePanW
logoSz == HalfPx(ticker.logoSize)
logoPad == HalfPx(ticker.logoPadding)
row1Y == 0
dividerY == rowH
row2Y == rowH + HalfPx(1)
statusY == rowH * 2 + HalfPx(1)
statusH == H - statusY

\* the glyphs that are not ASCII, by code point
Dash == <<"u2013">>
MiddleDot == "u00B7"

Digits == <<"0", "1", "2", "3", "4", "5", "6", "7", "8", "9">>

\* String(n) for a natural number: its decimal digits
RECURSIVE String(_)
String(n) ==
  IF n < 10 THEN <<Digits[n + 1]>>
  ELSE String(n \div 10) \o <<Digits[(n % 10) + 1]>>

\* ------------------------------------------------------------ the inputs
\* status.state as the JSON gives it: the three variants of the type, and a
\* string that is none of them
States == {"pre", "in_progress", "final", "postponed"}
TeamColors == {"#ce1141", "#552583"}
\* what the logo of a team resolves to: getLogo returns null, or bytes that
\* loadImage decodes and drawImage draws, or bytes that loadImage rejects,
\* or bytes that loadImage decodes and on which drawImage throws
LogoOutcomes == {"absent", "image", "undecodable", "undrawable"}
TeamRecords == {NoStr, Str(<<>>), Str(<<"9", "-", "3">>)}

\* game.away and game.home are two objects (JSON.parse never shares one):
\* ref is the identity that === compares
Teams(ref, abbr) ==
  [ref : {ref}, abbr : {abbr}, color : TeamColors, record : TeamRecords,
   logo : LogoOutcomes]

Statuses ==
  [state : States, period : {NoNum, Num(0), Num(4)}, clock : {NoStr, Str(<<"3", ":", "5", "2">>)},
   detail : {NoStr, Str(<<>>), Str(<<"7", "P", "M">>)}]

Games ==
  [league : {<<"N", "B", "A">>},
   away : Teams("away", <<"B", "O", "S">>),
   home : Teams("home", <<"L", "A", "L">>),
   score : [away : 0..MaxScore, home : 0..MaxScore],
   status : Statuses]

\* ------------------------------------------------------- the 2d context
NoClip == <<>>

\* canvas.getContext('2d') of a new canvas
newContext ==
  [fillStyle |-> "#000000", strokeStyle |-> "#000000", shadow |-> FALSE,
   clip |-> NoClip, saved |-> <<>>, ops |-> <<>>]

Paint(ctx, op) == [ctx EXCEPT !.ops = Append(@, op)]

fillRect(ctx, x, y, w, h) ==
  Paint(ctx, [op |-> "fillRect", style |-> ctx.fillStyle, shadow |-> ctx.shadow,
              clip |-> ctx.clip, x |-> x, y |-> y, w |-> w, h |-> h])

strokeRect(ctx, x, y, w, h) ==
  Paint(ctx, [op |-> "strokeRect", style |-> ctx.strokeStyle, shadow |-> ctx.shadow,
              clip |-> ctx.clip, x |-> x, y |-> y, w |-> w, h |-> h])

fillText(ctx, text, x, y) ==
  Paint(ctx, [op |-> "fillText", style |-> ctx.fillStyle, shadow |-> ctx.shadow,
              clip |-> ctx.clip, text |-> text, x |-> x, y |-> y])

\* beginPath(); arc(cx, cy, r, 0, 2 * PI); fill()
fillCircle(ctx, cx, cy, r) ==
  Paint(ctx, [op |-> "fillCircle", style |-> ctx.fillStyle, shadow |-> ctx.shadow,
              clip |-> ctx.clip, cx |-> cx, cy |-> cy, r |-> r])

\* beginPath(); arc(cx, cy, r, 0, 2 * PI); stroke()
strokeCircle(ctx, cx, cy, r) ==
  Paint(ctx, [op |-> "strokeCircle", style |-> ctx.strokeStyle, shadow |-> ctx.shadow,
              clip |-> ctx.clip, cx |-> cx, cy |-> cy, r |-> r])

drawImage(ctx, img, x, y, w, h) ==
  Paint(ctx, [op |-> "drawImage", img |-> img, shadow |-> ctx.shadow,
              clip |-> ctx.clip, x |-> x, y |-> y, w |-> w, h |-> h])

save(ctx) == [ctx EXCEPT !.saved = Append(@, [clip |-> ctx.clip])]

restore(ctx) ==
  IF ctx.saved = <<>> THEN ctx
  ELSE [ctx EXCEPT !.clip = ctx.saved[Len(ctx.saved)].clip,
                   !.saved = SubSeq(@, 1, Len(@) - 1)]

\* beginPath(); arc(cx, cy, r, 0, 2 * PI); closePath(); clip()
clipCircle(ctx, cx, cy, r) == [ctx EXCEPT !.clip = <<cx, cy, r>>]

fill(ctx, style) == [ctx EXCEPT !.fillStyle = style]
stroke(ctx, style) == [ctx EXCEPT !.strokeStyle = style]
shadowOn(ctx) == [ctx EXCEPT !.shadow = TRUE]
shadowOff(ctx) == [ctx EXCEPT !.shadow = FALSE]

\* ---------------------------------------------------------------- drawLogo
drawFallback(ctx, team, x, y, size) ==
  LET cx == x + size \div 2
      cy == y + size \div 2
      r  == size \div 2 - HalfPx(1)
      c1 == fillCircle(fill(ctx, "rgba(0,0,0,0.35)"), cx, cy, r)
      c2 == strokeCircle(stroke(c1, "rgba(255,255,255,0.25)"), cx, cy, r)
  IN fillText(fill(c2, "#ffffff"), team.abbr, cx, cy)

\* the catch of drawLogo is entered from loadImage with the context as it
\* was, and from drawImage after save() and clip() and before restore()
drawLogo(ctx, team, x, y, size) ==
  LET c1 == clipCircle(save(ctx), x + size \div 2, y + size \div 2, size \div 2)
  IN IF team.logo = "image"
       THEN restore(drawImage(c1, team.ref, x, y, size, size))
     ELSE IF team.logo = "undrawable"
       THEN drawFallback(c1, team, x, y, size)
     ELSE drawFallback(ctx, team, x, y, size)

\* ------------------------------------------------------------ drawTeamRow
\* isWinner with >= in place of >
isWinner_OrEqual(team, game) ==
  \/ team = game.away /\ game.score.away >= game.score.home
  \/ team = game.home /\ game.score.home >= game.score.away

isWinner(team, game) ==
  \/ team = game.away /\ game.score.away > game.score.home
  \/ team = game.home /\ game.score.home > game.score.away

\* the pre-game branch of the score panel
drawDash(ctx, y) ==
  fillText(fill(ctx, "#444444"), Dash, scorePanX + scorePanW \div 2, y + rowH \div 2)

\* the other branch: the score with its shadow, then the winner's underline
drawNumber(ctx, team, score, y, gameState, game) ==
  LET c1 == fillText(fill(shadowOn(ctx), "#ffffff"), String(score),
                     scorePanX + scorePanW \div 2, y + rowH \div 2)
      c2 == shadowOff(c1)
  IN IF gameState = "final" /\ isWinner(team, game)
       THEN fillRect(fill(c2, team.color), scorePanX + HalfPx(20),
                     y + rowH - HalfPx(4), scorePanW - HalfPx(40), HalfPx(3))
       ELSE c2

\* a score panel that shows the dash only while the score is 0
drawScore_DashAtZero(ctx, team, score, y, gameState, game) ==
  IF gameState = "pre" /\ score = 0
    THEN drawDash(ctx, y)
    ELSE drawNumber(ctx, team, score, y, gameState, game)

drawScore(ctx, team, score, y, gameState, game) ==
  IF gameState = "pre"
    THEN drawDash(ctx, y)
    ELSE drawNumber(ctx, team, score, y, gameState, game)

drawTeamRow(ctx, team, score, y, gameState, game) ==
  LET c1 == fillRect(fill(ctx, team.color), 0, y, scorePanX, rowH)
      c2 == fillRect(fill(c1, "gradient"), 0, y, scorePanX, rowH)
      c3 == fillRect(fill(c2, colors.scorePanelBg), scorePanX, y, scorePanW, rowH)
      c4 == fillRect(fill(c3, "#000000"), scorePanX, y, HalfPx(2), rowH)
      c5 == drawLogo(c4, team, logoPad, y + (rowH - logoSz) \div 2, logoSz)
      textX == logoPad + logoSz + HalfPx(10)
      hasRecord == Truthy(team.record)
      c6 == fillText(fill(c5, "#ffffff"), team.abbr, textX,
                     y + rowH \div 2 - (IF hasRecord THEN HalfPx(8) ELSE 0))
      c7 == IF hasRecord
              THEN fillText(fill(c6, "rgba(255,255,255,0.55)"), team.record.text,
                            textX, y + rowH \div 2 + HalfPx(14))
              ELSE c6
  IN drawScore(c7, team, score, y, gameState, game)

\* ----------------------------------------------------------- drawStatusBar
\* a status text built without the defaults for period and clock
statusText_NoDefaults(status) ==
  IF status.state = "in_progress"
    THEN <<"Q">> \o (IF status.period.given THEN String(status.period.n)
                                             ELSE <<"undefined">>)
         \o <<" ", " ", MiddleDot, " ", " ">>
         \o (IF status.clock.given THEN status.clock.text ELSE <<"undefined">>)
  ELSE IF status.state = "final"
    THEN <<"F", "I", "N", "A", "L">>
  ELSE IF Truthy(status.detail) THEN status.detail.text
  ELSE <<"U", "P", "C", "O", "M", "I", "N", "G">>

statusText(status) ==
  IF status.state = "in_progress"
    THEN (IF TruthyNum(status.period) THEN <<"Q">> \o String(status.period.n) ELSE <<>>)
         \o <<" ", " ", MiddleDot, " ", " ">>
         \o (IF Truthy(status.clock) THEN status.clock.text ELSE <<>>)
  ELSE IF status.state = "final"
    THEN <<"F", "I", "N", "A", "L">>
  ELSE IF Truthy(status.detail) THEN status.detail.text
  ELSE <<"U", "P", "C", "O", "M", "I", "N", "G">>

statusStyle(status) ==
  IF status.state = "in_progress" THEN "#ffffff"
  ELSE IF status.state = "final" THEN colors.final
  ELSE colors.pre

\* a live indicator for every game that is not final
showsLive_NotFinal(game) == game.status.state # "final"

\* LIVE indicator (right side, only for in-progress)
showsLive(game) == game.status.state = "in_progress"

drawStatusBar(ctx, game, y, h, w) ==
  LET cy == y + h \div 2 + HalfPx(1)
      c1 == fillRect(fill(ctx, colors.statusBarBg), 0, y, w, h)
      c2 == fillRect(fill(c1, colors.divider), 0, y, w, HalfPx(1))
      c3 == fillText(fill(c2, colors.dimText), game.league, HalfPx(8), cy)
      c4 == fillText(fill(c3, statusStyle(game.status)), statusText(game.status),
                     w \div 2, cy)
      liveRightX == w - HalfPx(8)
  IN IF showsLive(game)
       THEN fillText(fillCircle(fill(c4, colors.live), liveRightX - HalfPx(38), cy,
                                HalfPx(4)),
                     <<"L", "I", "V", "E">>, liveRightX, cy)
       ELSE c4

\* ------------------------------------------------------- renderTickerImage
\* the drawing calls of renderTickerImage(game, logoCache), in order
drawTicker(game) ==
  LET c1 == fillRect(fill(newContext, colors.background), 0, 0, W, H)
      c2 == drawTeamRow(c1, game.away, game.score.away, row1Y, game.status.state, game)
      c3 == fillRect(fill(c2, "#000000"), 0, dividerY, W, HalfPx(1))
      c4 == drawTeamRow(c3, game.home, game.score.home, row2Y, game.status.state, game)
      c5 == drawStatusBar(c4, game, statusY, statusH, W)
  IN strokeRect(stroke(c5, "rgba(255,255,255,0.08)"), 1, 1, W - HalfPx(1), H - HalfPx(1)).ops

\* a process that is asked to render one game
RenderInit ==
  /\ Fresh
  /\ now = 0
  /\ prov = [i \in Ids |-> 1]
  /\ disk = [i \in Ids |-> NoFile]
  /\ phase = "boot"
  /\ bounded = TRUE
  /\ faults = 0
  /\ acts = 0
  /\ ev = {}
  /\ LogoIdle
  /\ logoDisk = NoLogoFiles
  /\ rgame \in Games
  /\ canvas = <<>>
  /\ FeedIdle

\* renderTickerImage(rgame, logoCache) runs to its end
Render ==
  /\ canvas = <<>>
  /\ canvas' = drawTicker(rgame)
  /\ UNCHANGED rgame
  /\ UNCHANGED notRenderVars

RenderNext == Render

RenderSpec == RenderInit /\ [][RenderNext]_vars

\* --------------------------------------------------------- renderer claims
Rendered == canvas # <<>>

\* the rectangles filled inside the score panel of the row at y, right of
\* the separator and lower than the row
AccentBars(y) ==
  {i \in DOMAIN canvas :
     /\ canvas[i].op = "fillRect"
     /\ canvas[i].x > scorePanX
     /\ canvas[i].y >= y /\ canvas[i].y + canvas[i].h <= y + rowH
     /\ canvas[i].h < rowH}

\* the texts drawn inside the score panel of the row at y
ScoreTexts(y) ==
  {i \in DOMAIN canvas :
     /\ canvas[i].op = "fillText"
     /\ canvas[i].x > scorePanX
     /\ canvas[i].y >= y /\ canvas[i].y <= y + rowH}

\* C19: in the image of a final game with different scores exactly one score
\* panel has the accent bar, the panel of the team with the higher score,
\* filled with that team's colour; with equal scores, and in every game that
\* is not final, neither panel has one.
C19_AccentBarMarksWinner ==
  Rendered =>
    LET g == rgame
        away == AccentBars(row1Y)
        home == AccentBars(row2Y)
    IN /\ (g.status.state = "final" /\ g.score.home > g.score.away) =>
            /\ away = {}
            /\ Cardinality(home) = 1
            /\ \A i \in home : canvas[i].style = g.home.color
       /\ (g.status.state = "final" /\ g.score.away > g.score.home) =>
            /\ home = {}
            /\ Cardinality(away) = 1
            /\ \A i \in away : canvas[i].style = g.away.color
       /\ (g.status.state = "final" /\ g.score.away = g.score.home) =>
            away = {} /\ home = {}
       /\ g.status.state # "final" => away = {} /\ home = {}

\* a final game won by the home team, in colours that differ, has its bar
C19_Witness ==
  /\ Rendered
  /\ rgame.status.state = "final"
  /\ rgame.score.home > rgame.score.away
  /\ rgame.home.color # rgame.away.color
  /\ \E i \in AccentBars(row2Y) : canvas[i].style = rgame.home.color

IsNumeric(text) == text # <<>> /\ \A k \in DOMAIN text : \E d \in DOMAIN Digits : text[k] = Digits[d]

\* C20: in the image of a scheduled game each score panel has one text, the
\* dash, whatever the scores are, and neither panel has an accent bar.
C20_ScheduledShowsDash ==
  (Rendered /\ rgame.status.state = "pre") =>
    \A y \in {row1Y, row2Y} :
      /\ Cardinality(ScoreTexts(y)) = 1
      /\ \A i \in ScoreTexts(y) : canvas[i].text = Dash /\ ~IsNumeric(canvas[i].text)
      /\ AccentBars(y) = {}

\* a scheduled game whose record carries scores 1 and 2 shows two dashes
C20_Witness ==
  /\ Rendered
  /\ rgame.status.state = "pre"
  /\ rgame.score.away = 1 /\ rgame.score.home = 2
  /\ \A y \in {row1Y, row2Y} : \E i \in ScoreTexts(y) : canvas[i].text = Dash

\* the texts drawn in the status bar around its centre, and at its right
StatusTexts(x) ==
  {i \in DOMAIN canvas :
     /\ canvas[i].op = "fillText"
     /\ canvas[i].y >= statusY
     /\ canvas[i].x = x}

\* the filled circles of the status bar
StatusDots ==
  {i \in DOMAIN canvas : canvas[i].op = "fillCircle" /\ canvas[i].cy >= statusY}

Upcoming == <<"U", "P", "C", "O", "M", "I", "N", "G">>
Live == <<"L", "I", "V", "E">>

\* C21 as stated: a game whose state is none of pre, in_progress and final
\* is drawn as a scheduled game: a dash without shadow in each score panel,
\* the detail text or the placeholder in the status bar, no live indicator,
\* no accent bar.
C21_UnknownStateDrawnAsScheduled ==
  (Rendered /\ rgame.status.state \notin {"pre", "in_progress", "final"}) =>
    /\ \A y \in {row1Y, row2Y} :
         /\ \A i \in ScoreTexts(y) : canvas[i].text = Dash /\ ~canvas[i].shadow
         /\ AccentBars(y) = {}
    /\ \A i \in StatusTexts(W \div 2) :
         canvas[i].text = IF Truthy(rgame.status.detail)
                            THEN rgame.status.detail.text ELSE Upcoming
    /\ StatusDots = {}
    /\ StatusTexts(W - HalfPx(8)) = {}

Separator == <<" ", " ", MiddleDot, " ", " ">>
Final == <<"F", "I", "N", "A", "L">>

\* the one text drawn at the centre of the status bar is text
CentreTextIs(text) ==
  /\ Cardinality(StatusTexts(W \div 2)) = 1
  /\ \A i \in StatusTexts(W \div 2) :
       /\ canvas[i].text = text
       /\ \A k \in DOMAIN text : text[k] \notin {"undefined", "null"}

\* C22 as stated: the centre text of an in-progress game is "Q" and the
\* period, the separator and the clock, where only an absent period or
\* clock gives the empty string; of a final game "FINAL"; of a scheduled
\* game the detail, or the placeholder when the detail is absent or empty.
C22_StatusTextByVariant ==
  Rendered =>
    LET st == rgame.status IN
    /\ st.state = "in_progress" =>
         CentreTextIs((IF st.period.given THEN <<"Q">> \o String(st.period.n) ELSE <<>>)
                      \o Separator
                      \o (IF st.clock.given THEN st.clock.text ELSE <<>>))
    /\ st.state = "final" => CentreTextIs(Final)
    /\ st.state = "pre" =>
         CentreTextIs(IF st.detail.given /\ st.detail.text # <<>>
                        THEN st.detail.text ELSE Upcoming)

\* C22 amended: as above, and a period that is 0 gives the empty string like
\* an absent one, not the label "Q0".
C22_StatusTextByVariantZeroPeriod ==
  Rendered =>
    LET st == rgame.status IN
    /\ st.state = "in_progress" =>
         CentreTextIs((IF st.period.given /\ st.period.n # 0
                         THEN <<"Q">> \o String(st.period.n) ELSE <<>>)
                      \o Separator
                      \o (IF st.clock.given THEN st.clock.text ELSE <<>>))
    /\ st.state = "final" => CentreTextIs(Final)
    /\ st.state = "pre" =>
         CentreTextIs(IF st.detail.given /\ st.detail.text # <<>>
                        THEN st.detail.text ELSE Upcoming)

\* an in-progress game without period and clock shows the separator alone
C22_Witness ==
  /\ Rendered
  /\ rgame.status.state = "in_progress"
  /\ ~rgame.status.period.given /\ ~rgame.status.clock.given
  /\ CentreTextIs(Separator)

\* C23: the status bar has the live indicator, one filled circle in the
\* live colour and the text LIVE at its right, exactly when the game is in
\* progress; for every other game it has neither.
C23_LiveIndicatorIffInProgress ==
  Rendered =>
    IF rgame.status.state = "in_progress"
      THEN /\ Cardinality(StatusDots) = 1
           /\ \A i \in StatusDots : canvas[i].style = colors.live
           /\ Cardinality(StatusTexts(W - HalfPx(8))) = 1
           /\ \A i \in StatusTexts(W - HalfPx(8)) : canvas[i].text = Live
      ELSE /\ StatusDots = {}
           /\ StatusTexts(W - HalfPx(8)) = {}
           /\ \A i \in DOMAIN canvas :
                canvas[i].op = "fillText" => canvas[i].text # Live

\* an in-progress game is drawn with its dot and its LIVE text
C23_Witness ==
  /\ Rendered
  /\ rgame.status.state = "in_progress"
  /\ \E i \in StatusDots : canvas[i].style = colors.live
  /\ \E i \in StatusTexts(W - HalfPx(8)) : canvas[i].text = Live

\* the game with every logo that does not load taken away
WithoutFailedLogos(game) ==
  [game EXCEPT !.away.logo = IF @ = "image" THEN @ ELSE "absent",
               !.home.logo = IF @ = "image" THEN @ ELSE "absent"]

\* C24 as stated: whatever keeps a logo from being shown (getLogo absent,
\* bytes that do not decode, bytes that do not draw), the drawing is the one
\* of the same game without that logo, element by element.
C24_FailedLogoDrawnAsNoLogo ==
  Rendered => canvas = drawTicker(WithoutFailedLogos(rgame))

\* --------------------------------------------------- server, concurrency
\* The updatedAt of a game only grows from one fetch to the next (Evolve), so
\* of two records of a game the one with the smaller updatedAt is of the
\* older snapshot.  currentGames is assigned when a refresh completes.
\* C25 as stated: while the process runs, currentGames never goes from a
\* record of a game to an older one, and a cache entry that is at least as
\* new as the record in currentGames is never replaced by an older one.
C25_NeverBackToOlderSnapshot ==
  [][[type |-> "restart"] \notin ev' =>
       \A i \in Ids :
         /\ (currentGames[i] # 0 /\ currentGames'[i] # 0)
              => currentGames'[i] >= currentGames[i]
         /\ (currentGames[i] # 0 /\ cache[i] # NoEntry
               /\ cache[i].dataHash >= currentGames[i])
              => (cache'[i] # NoEntry /\ cache'[i].dataHash >= currentGames[i])
    ]_vars

\* ------------------------------------------------------- serverless mode
\* config.isVercel: no startup function and no interval (server.ts:967); the
\* platform hands requests to the exported app, which initializes lazily
VercelInit ==
  /\ Fresh
  /\ now = 0
  /\ prov = [i \in Ids |-> 1]
  /\ disk = [i \in Ids |-> NoFile]
  /\ phase = "vercel"
  /\ bounded = TRUE
  /\ faults = 0
  /\ acts = 0
  /\ ev = {}
  /\ LogoIdle
  /\ logoDisk = NoLogoFiles
  /\ RenderIdle
  /\ FeedIdle

\* the requests are those for /api/image/:id
VercelNext ==
  \/ Restart
  \/ \E p \in Procs : \E id \in Ids : Request(p, "apiImage", id)
  \/ \E p \in Procs : InitDirs(p)
  \/ \E p \in Procs : RefreshLoop(p)
  \/ \E p \in Procs : RefreshRendered(p)
  \/ \E p \in Procs : RefreshWritten(p)
  \/ \E p \in Procs : ApiImage(p)

VercelSpec == VercelInit /\ [][VercelNext]_vars

\* activation p is inside the body of ensureInitialized
InInit(p) ==
  /\ procs[p].op \in RequestOps
  /\ procs[p].pc \in {"mkdir", "fetched", "render", "write"}

\* C26 as stated: the body of ensureInitialized is never run by two
\* requests, and a handler runs only in an initialized process.
C26_InitRunsOnce ==
  /\ Cardinality({p \in Procs : InInit(p)}) <= 1
  /\ \A p \in Procs : procs[p].pc = "handler" => initialized

\* ------------------------------------------------------ logo file names
\* C27 as stated: the bytes getLogo(u) returns were fetched for u (two
\* distinct URLs never share a file).
C27_OwnBytesOnly ==
  \A e \in LEvents("ret") :
    (e.result # NoBuf /\ e.result # Torn) => e.result.logo = e.arg.text

\* ========================================================== FeedAggregator
MaxFeedTime  == 3   \* the feed clock runs over 0..MaxFeedTime
MaxFeedCalls == 3   \* getItems calls made in a run
feedTtlMs == 2      \* FeedAggregator.ttlMs, in units of 15 000 ms

\* this.providers, in the order of the constructor
providers == <<"nba", "nhl", "pga">>

\* FeedItem.state: the three states of the sort, and one it does not know
FeedStates == {"live", "pre", "final", "postponed"}

\* the lists fetchItems of a provider can resolve with: item k of the list
\* of src, in state states[k]; the PGA provider resolves with one item
ItemsOf(src, states) ==
  [k \in 1..Len(states) |-> [src |-> src, k |-> k, state |-> states[k]]]

StateLists(src) ==
  IF src = "nba"
    THEN {<<>>} \cup {<<a>> : a \in FeedStates}
         \cup {<<a, b>> : a \in FeedStates, b \in FeedStates}
  ELSE IF src = "nhl" THEN {<<>>} \cup {<<a>> : a \in {"live", "final"}}
  ELSE {<<"live">>, <<"final">>}

\* what Promise.allSettled reports for the fetchItems of src
Settled(src) ==
  {[status |-> "rejected", value |-> <<>>]}
    \cup {[status |-> "fulfilled", value |-> ItemsOf(src, l)] : l \in StateLists(src)}

AllSettled ==
  {<<a, b, c>> : a \in Settled(providers[1]), b \in Settled(providers[2]),
                 c \in Settled(providers[3])}

\* a validity test that still accepts a cache whose age equals the TTL
cacheValid_AtTtl(c, t) == c # NoCache /\ t - c.updatedAt <= feedTtlMs

\* this.cache && Date.now() - this.cache.updatedAt.getTime() < this.ttlMs
cacheValid(c, t) == c # NoCache /\ t - c.updatedAt < feedTtlMs

\* a loop over the results that ends at the first rejected one
RECURSIVE collect_StopAtRejected(_)
collect_StopAtRejected(results) ==
  IF results = <<>> \/ Head(results).status # "fulfilled" THEN <<>>
  ELSE Head(results).value \o collect_StopAtRejected(Tail(results))

\* for (const result of results) if fulfilled items.push(...result.value)
RECURSIVE collect(_)
collect(results) ==
  IF results = <<>> THEN <<>>
  ELSE (IF Head(results).status = "fulfilled" THEN Head(results).value ELSE <<>>)
       \o collect(Tail(results))

\* stateOrder[state] ?? 9, for a state that is the name of a game state (no
\* property of Object.prototype has such a name)
stateOrder(state) ==
  IF state = "live" THEN 0
  ELSE IF state = "pre" THEN 1
  ELSE IF state = "final" THEN 2
  ELSE 9

compare(a, b) == stateOrder(a.state) - stateOrder(b.state)

\* an insertion that puts x in front of the items that compare equal to it
insert_BeforeEqual(sorted, x) ==
  LET n == Cardinality({i \in DOMAIN sorted : compare(sorted[i], x) < 0})
  IN SubSeq(sorted, 1, n) \o <<x>> \o SubSeq(sorted, n + 1, Len(sorted))

\* Array.prototype.sort is stable: x goes behind the items that do not
\* compare greater than it
insert(sorted, x) ==
  LET n == Cardinality({i \in DOMAIN sorted : compare(sorted[i], x) <= 0})
  IN SubSeq(sorted, 1, n) \o <<x>> \o SubSeq(sorted, n + 1, Len(sorted))

\* items.sort((a, b) => compare(a, b))
RECURSIVE sort(_)
sort(items) ==
  IF items = <<>> THEN <<>>
  ELSE insert(sort(SubSeq(items, 1, Len(items) - 1)), items[Len(items)])

\* getItems() is called in activation p: an answer from the cache, or
\* refresh() up to its await, which calls fetchItems of every provider
GetItems(p) ==
  /\ fcalls[p] = "idle"
  /\ facts < MaxFeedCalls
  /\ facts' = facts + 1
  /\ IF cacheValid(fcache, fnow)
       THEN /\ fev' = {[type |-> "ret", p |-> p, via |-> "cache",
                        items |-> fcache.items, updated |-> fcache.updatedAt]}
            /\ UNCHANGED fcalls
       ELSE /\ fcalls' = [fcalls EXCEPT ![p] = "settling"]
            /\ fev' = {[type |-> "fetch", p |-> p, n |-> n, src |-> providers[n]] :
                         n \in DOMAIN providers}
  /\ UNCHANGED <<fcache, fnow>>
  /\ UNCHANGED notFeedVars

\* refresh() after its await: the results are collected and sorted, the
\* cache is replaced, the response is returned
FeedSettled(p) ==
  /\ fcalls[p] = "settling"
  /\ \E results \in AllSettled :
       LET items == sort(collect(results)) IN
       /\ fcache' = [items |-> items, updatedAt |-> fnow]
       /\ fev' = {[type |-> "ret", p |-> p, via |-> "refresh", items |-> items,
                   updated |-> fnow, results |-> results]}
  /\ fcalls' = [fcalls EXCEPT ![p] = "idle"]
  /\ UNCHANGED <<fnow, facts>>
  /\ UNCHANGED notFeedVars

\* time passes
FeedTick ==
  /\ fnow < MaxFeedTime
  /\ fnow' = fnow + 1
  /\ fev' = {}
  /\ UNCHANGED <<fcache, fcalls, facts>>
  /\ UNCHANGED notFeedVars

FeedNext ==
  \/ \E p \in Procs : GetItems(p)
  \/ \E p \in Procs : FeedSettled(p)
  \/ FeedTick

FeedSpec == Init /\ [][FeedNext]_vars

\* ------------------------------------------------------------ feed claims
FEvents(type) == {e \in fev : e.type = type}

\* C28: a getItems call made while a cache exists whose age is less than
\* ttlMs returns the cached items and the cached timestamp, calls no
\* provider and leaves the cache alone; any other getItems call calls the
\* fetchItems of each provider once; and the refresh it runs replaces the
\* cache by what it returns, stamped with the time of its completion.
C28_CacheAnswersWhileYoung ==
  [][/\ facts' = facts + 1 =>
          IF fcache # NoCache /\ fnow - fcache.updatedAt < feedTtlMs
            THEN /\ fcache' = fcache
                 /\ \A e \in fev' :
                      /\ e.type = "ret" /\ e.via = "cache"
                      /\ e.items = fcache.items /\ e.updated = fcache.updatedAt
                 /\ Cardinality(fev') = 1
            ELSE /\ \A e \in fev' : e.type = "fetch"
                 /\ \A n \in DOMAIN providers :
                      Cardinality({e \in fev' : e.src = providers[n]}) = 1
                 /\ Cardinality(fev') = Len(providers)
     /\ \A e \in fev' : (e.type = "ret" /\ e.via = "refresh") =>
          fcache' = [items |-> e.items, updatedAt |-> fnow] /\ e.updated = fnow
     /\ fcache' # fcache => \E e \in fev' : e.type = "ret" /\ e.via = "refresh"
    ]_vars

\* a cache one unit short of its TTL has answered a call
C28_Witness ==
  \E e \in FEvents("ret") :
    /\ e.via = "cache"
    /\ fnow - e.updated = feedTtlMs - 1
    /\ e.items # <<>>

\* the items of a sequence
Range(seq) == {seq[i] : i \in DOMAIN seq}

Fulfilled(results) == {n \in DOMAIN results : results[n].status = "fulfilled"}

\* C29: whichever providers fail, refresh returns: its items are exactly
\* the items of the providers that succeeded, each once, and they are the
\* new cache, also when every provider failed; that empty cache then
\* answers the getItems calls made before its TTL has passed.
C29_FailedProvidersLeftOut ==
  [][/\ \A e \in fev' : (e.type = "ret" /\ e.via = "refresh") =>
          /\ Range(e.items) = UNION {Range(e.results[n].value) : n \in Fulfilled(e.results)}
          /\ Cardinality(Range(e.items)) = Len(e.items)
          /\ fcache' # NoCache /\ fcache'.items = e.items
          /\ Fulfilled(e.results) = {} => e.items = <<>>
     /\ (facts' = facts + 1 /\ fcache # NoCache /\ fcache.items = <<>>
           /\ fnow - fcache.updatedAt < feedTtlMs) =>
          \A e \in fev' : e.type = "ret" /\ e.via = "cache" /\ e.items = <<>>
    ]_vars

\* a refresh in which the first provider failed and a later one did not
C29_Witness ==
  \E e \in FEvents("ret") :
    /\ e.via = "refresh"
    /\ e.results[1].status = "rejected"
    /\ e.results[2].status = "fulfilled"
    /\ e.items # <<>>
    /\ fcache.items = e.items

\* the place of a state in the order of the feed
Rank(state) ==
  CASE state = "live" -> 1 [] state = "pre" -> 2 [] state = "final" -> 3 [] OTHER -> 4

\* the place of a provider in the constructor's list
ProviderIndex(src) == CHOOSE n \in DOMAIN providers : providers[n] = src

====
